---- MODULE Spec2Model ----
(***************************************************************************)
(* Route optimization engine of pukpuk-be:                                 *)
(*   src/app/infrastructure/repositories/route_optimization.py             *)
(* The module models _haversine_distance, _dijkstra, _build_graph and the  *)
(* optimize_route orchestration with its two valuation paths.              *)
(*                                                                         *)
(* Floats are modelled in fixed point / exact rationals; every scale is    *)
(* stated at the definition that uses it.                                  *)
(***************************************************************************)
EXTENDS Integers, Sequences, FiniteSets, TLC

VARIABLES
    \* ---- _dijkstra(graph, start, end, weight_func) ----
    graph,      \* dict: node -> dict: neighbor -> edge_data
    start,      \* start node
    end,        \* end node
    queue,      \* the heap of (cost, node, path, dist) entries
    visited,    \* set of expanded nodes
    min_cost,   \* dict: node -> best cost pushed so far
    dpc,        \* position of the call: "idle", "loop", "done"
    dresult,    \* the returned (cost, path, dist) tuple
    \* ---- _build_graph(locations) ----
    blocations, \* the List[Location] argument
    bpc,        \* position of the call: "idle", "done"
    bresult,    \* outcome of the call
    \* ---- _haversine_distance(coord1, coord2) ----
    hcoord1,    \* the argument coord1, [lat, lon]
    hcoord2,    \* the argument coord2, [lat, lon]
    hpc,        \* position of the call: "idle", "done"
    hresult,    \* the returned distance
    \* ---- optimize_route(request) and its collaborators ----
    database,     \* self.database is not None
    db_available, \* the module flag of database.py
    dbLocations,  \* documents of the "locations" collection
    dbVehicles,   \* documents of the "vehicles" collection
    dbConfigs,    \* documents of the "route_configurations" collection
    request,      \* the RouteOptimizationRequest
    pc,           \* position of the call: "start", "vehicles", "lookup", "compute", "done"
    locations,    \* local `locations`
    vehicles,     \* local `vehicles`
    load_factor,  \* the values of the local `load_factor` computed so far
    valued,       \* the unrounded figures computed so far, one record per option
    calls,        \* the collaborator and engine calls made so far, in order
    result,       \* what optimize_route returned or raised
    peer          \* the frame of a second optimize_route call

dvars == <<graph, start, end, queue, visited, min_cost, dpc, dresult>>
bvars == <<blocations, bpc, bresult>>
hvars == <<hcoord1, hcoord2, hpc, hresult>>
ovars == <<database, db_available, dbLocations, dbVehicles, dbConfigs,
           request, pc, locations, vehicles, load_factor, valued, calls, result,
           peer>>

vars == <<graph, start, end, queue, visited, min_cost, dpc, dresult,
          blocations, bpc, bresult,
          hcoord1, hcoord2, hpc, hresult,
          database, db_available, dbLocations, dbVehicles, dbConfigs,
          request, pc, locations, vehicles, load_factor, valued, calls, result,
          peer>>

-----------------------------------------------------------------------------
(* Bounds of the search inputs *)

MaxCost == 1        \* weight_func values are drawn from 0..MaxCost
DistValues == {1, 3} \* edge_data['distance'] values; 1 + 1 < 3 breaks the triangle inequality

(* float('inf') of the no-path result and of min_cost.get(neighbor, inf):  *)
(* a value above every finite accumulated cost of the model.               *)
Infinity == 1000000

Nodes == {"a", "b", "c"}        \* keys of the graph dict
Absent == "z"                   \* a node that is no key of the graph
NodeRank == [a |-> 1, b |-> 2, c |-> 3, z |-> 4]   \* Python's str ordering

NoEdge == << >>      \* an ordered pair without an edge

-----------------------------------------------------------------------------
(* Sequence helpers *)

RECURSIVE SumSeq(_)
SumSeq(s) == IF s = <<>> THEN 0 ELSE Head(s) + SumSeq(Tail(s))

Range(s) == {s[i] : i \in 1..Len(s)}

NoRepeat(s) == \A i, j \in 1..Len(s) : i # j => s[i] # s[j]

-----------------------------------------------------------------------------
(* _dijkstra, lines 28-54 *)

\* graph.get(node, {}) of line 45
Neighbors(g, node) == IF node \in DOMAIN g THEN g[node] ELSE << >>

\* weight_func(edge_data), line 48: a caller-supplied pure function of the
\* edge data; its value on each edge is drawn together with the graph and
\* carried in the edge record.
weight_func(edge_data) == edge_data.weight

\* min_cost.get(neighbor, float('inf')), line 50
MinCostGet(mc, n) == IF n \in DOMAIN mc THEN mc[n] ELSE Infinity

\* Tuple order of the heap entries, (cost, node, ...): heapq compares the
\* tuples lexicographically.  Two queued entries never agree on both cost
\* and node (a node is pushed again only with a strictly lower cost), so
\* the comparison never reaches path or dist.
EntryLessByDist(e1, e2) ==
    \/ e1.dist < e2.dist
    \/ e1.dist = e2.dist /\ e1.cost < e2.cost
    \/ e1.dist = e2.dist /\ e1.cost = e2.cost /\ NodeRank[e1.node] < NodeRank[e2.node]

EntryLess(e1, e2) ==
    \/ e1.cost < e2.cost
    \/ e1.cost = e2.cost /\ NodeRank[e1.node] < NodeRank[e2.node]

\* heapq.heappop(queue), line 36: the least entry
HeapTop(q) == CHOOSE e \in q : \A f \in q \ {e} : EntryLess(e, f)

\* a relaxation that adds weight_func(edge_data) to the distance as well
RelaxedDistFromCost(g, mc, vis, cost, node, path, dist) ==
    { [cost |-> cost + weight_func(Neighbors(g, node)[n]),
       node |-> n,
       path |-> path,
       dist |-> dist + weight_func(Neighbors(g, node)[n])] :
      n \in { m \in DOMAIN Neighbors(g, node) :
                /\ m \notin vis
                /\ cost + weight_func(Neighbors(g, node)[m]) < MinCostGet(mc, m) } }

\* lines 45-52: the entries pushed while expanding `node`
Relaxed(g, mc, vis, cost, node, path, dist) ==
    { [cost |-> cost + weight_func(Neighbors(g, node)[n]),
       node |-> n,
       path |-> path,
       dist |-> dist + Neighbors(g, node)[n].distance] :
      n \in { m \in DOMAIN Neighbors(g, node) :
                /\ m \notin vis
                /\ cost + weight_func(Neighbors(g, node)[m]) < MinCostGet(mc, m) } }

\* line 51: min_cost after the expansion
MinCostAfter(mc, pushed) ==
    [n \in (DOMAIN mc) \cup {e.node : e \in pushed} |->
        IF \E e \in pushed : e.node = n
        THEN (CHOOSE e \in pushed : e.node = n).cost
        ELSE mc[n]]

\* line 54
NoPathResultStart == [cost |-> 0, path |-> << >>, dist |-> 0]

NoPathResult == [cost |-> Infinity, path |-> << >>, dist |-> 0]

\* lines 40-43: the tuple returned when the end node is popped
ReturnedStalePath(e) == [cost |-> e.cost, path |-> e.path, dist |-> e.dist]

Returned(e) == [cost |-> e.cost, path |-> Append(e.path, e.node), dist |-> e.dist]

\* value of dresult before the call has returned
NoResult == [cost |-> -1, path |-> << >>, dist |-> -1]

\* lines 30-33
DijkstraCall ==
    /\ dpc = "idle"
    /\ queue' = {[cost |-> 0, node |-> start, path |-> << >>, dist |-> 0]}
    /\ visited' = {}
    /\ min_cost' = (start :> 0)
    /\ dpc' = "loop"
    /\ UNCHANGED <<graph, start, end, dresult>>
    /\ UNCHANGED <<bvars, hvars, ovars>>

\* lines 36-38: a popped entry whose node is already visited is dropped
DijkstraSkip ==
    /\ dpc = "loop" /\ queue # {}
    /\ LET e == HeapTop(queue) IN
        /\ e.node \in visited
        /\ queue' = queue \ {e}
    /\ UNCHANGED <<graph, start, end, visited, min_cost, dpc, dresult>>
    /\ UNCHANGED <<bvars, hvars, ovars>>

\* a loop without the return of lines 42-43: the end node is expanded like
\* any other
DijkstraReturnExpanding ==
    /\ dpc = "loop" /\ queue # {}
    /\ LET e == HeapTop(queue)
           pushed == Relaxed(graph, min_cost, visited \cup {e.node},
                             e.cost, e.node, Append(e.path, e.node), e.dist)
       IN
        /\ e.node \notin visited
        /\ e.node = end
        /\ visited' = visited \cup {e.node}
        /\ min_cost' = MinCostAfter(min_cost, pushed)
        /\ queue' = (queue \ {e}) \cup pushed
    /\ UNCHANGED <<graph, start, end, dpc, dresult>>
    /\ UNCHANGED <<bvars, hvars, ovars>>

\* lines 36-43: the end node is popped
DijkstraReturn ==
    /\ dpc = "loop" /\ queue # {}
    /\ LET e == HeapTop(queue) IN
        /\ e.node \notin visited
        /\ e.node = end
        /\ queue' = queue \ {e}
        /\ visited' = visited \cup {e.node}
        /\ dresult' = Returned(e)
        /\ dpc' = "done"
    /\ UNCHANGED <<graph, start, end, min_cost>>
    /\ UNCHANGED <<bvars, hvars, ovars>>

\* an expansion whose loop lacks the test of lines 46-47
DijkstraExpandPushingVisited ==
    /\ dpc = "loop" /\ queue # {}
    /\ LET e == HeapTop(queue)
           pushed == Relaxed(graph, min_cost, {},
                             e.cost, e.node, Append(e.path, e.node), e.dist)
       IN
        /\ e.node \notin visited
        /\ e.node # end
        /\ visited' = visited \cup {e.node}
        /\ min_cost' = MinCostAfter(min_cost, pushed)
        /\ queue' = (queue \ {e}) \cup pushed
    /\ UNCHANGED <<graph, start, end, dpc, dresult>>
    /\ UNCHANGED <<bvars, hvars, ovars>>

\* lines 36-52: another node is popped and its edges are relaxed
DijkstraExpand ==
    /\ dpc = "loop" /\ queue # {}
    /\ LET e == HeapTop(queue)
           pushed == Relaxed(graph, min_cost, visited \cup {e.node},
                             e.cost, e.node, Append(e.path, e.node), e.dist)
       IN
        /\ e.node \notin visited
        /\ e.node # end
        /\ visited' = visited \cup {e.node}
        /\ min_cost' = MinCostAfter(min_cost, pushed)
        /\ queue' = (queue \ {e}) \cup pushed
    /\ UNCHANGED <<graph, start, end, dpc, dresult>>
    /\ UNCHANGED <<bvars, hvars, ovars>>

\* lines 35, 54: the queue is empty
DijkstraNoPath ==
    /\ dpc = "loop" /\ queue = {}
    /\ dresult' = NoPathResult
    /\ dpc' = "done"
    /\ UNCHANGED <<graph, start, end, queue, visited, min_cost>>
    /\ UNCHANGED <<bvars, hvars, ovars>>


-----------------------------------------------------------------------------
(* Fixed-point arithmetic for the float computations *)

\* integer division truncating toward zero, as Python's int() does
TruncDiv(n, d) == IF n >= 0 THEN n \div d ELSE -((-n) \div d)

RECURSIVE ISqrtIn(_, _, _)
ISqrtIn(n, lo, hi) ==
    IF lo = hi THEN lo
    ELSE LET mid == (lo + hi + 1) \div 2 IN
         IF mid * mid <= n THEN ISqrtIn(n, mid, hi) ELSE ISqrtIn(n, lo, mid - 1)

\* floor of the square root
ISqrt(n) == ISqrtIn(n, 0, 46340)

-----------------------------------------------------------------------------
(* _haversine_distance, lines 14-26.                                       *)
(* Coordinates are [lat, lon] in units of 1e-4 degree; angles are radians  *)
(* scaled by 1e5; the result is in whole kilometres.  math.sin, math.cos   *)
(* and math.asin are evaluated by their Taylor polynomials, which is exact *)
(* at this resolution for the angles that occur (below 0.13 rad).          *)

\* math.radians, lines 17-18
Radians(deg) == TruncDiv(deg * 1745, 10000)

\* math.sin: x - x^3/6
Sin(x) == x - TruncDiv(TruncDiv(x * x, 100000) * x, 600000)

\* math.cos: 1 - x^2/2 + x^4/24
Cos(x) ==
    LET q == (x * x) \div 100000 IN
    100000 - (q \div 2) + ((q * q) \div 100000) \div 24

\* math.asin of a value scaled by 1e4: y + y^3/6
Asin(y) == y + (y * y * y) \div 600000000

\* r of line 25
EarthRadiusKm == 6371

\* the same formula with cos(lat1) in place of cos(lat1) * cos(lat2)
HaversineOneCosine(coord1, coord2) ==
    LET lat1 == Radians(coord1[1])
        lon1 == Radians(coord1[2])
        lat2 == Radians(coord2[1])
        lon2 == Radians(coord2[2])
        dlon == lon2 - lon1
        dlat == lat2 - lat1
        sdlat == Sin(TruncDiv(dlat, 2))
        sdlon == Sin(TruncDiv(dlon, 2))
        cc == Cos(lat1) \div 100
        a == (sdlat * sdlat) \div 100 + (cc * ((sdlon * sdlon) \div 100)) \div 1000
        c == 2 * Asin(ISqrt(a))
    IN (c * EarthRadiusKm) \div 10000

_haversine_distance(coord1, coord2) ==
    LET lat1 == Radians(coord1[1])                  \* line 17
        lon1 == Radians(coord1[2])
        lat2 == Radians(coord2[1])                  \* line 18
        lon2 == Radians(coord2[2])
        dlon == lon2 - lon1                         \* line 21
        dlat == lat2 - lat1                         \* line 22
        sdlat == Sin(TruncDiv(dlat, 2))             \* sin(dlat/2), scale 1e5
        sdlon == Sin(TruncDiv(dlon, 2))             \* sin(dlon/2), scale 1e5
        \* cos(lat1) * cos(lat2), scale 1e3
        cc == ((Cos(lat1) \div 100) * (Cos(lat2) \div 100)) \div 1000
        \* line 23, scale 1e8
        a == (sdlat * sdlat) \div 100 + (cc * ((sdlon * sdlon) \div 100)) \div 1000
        c == 2 * Asin(ISqrt(a))                     \* line 24, scale 1e4
    IN (c * EarthRadiusKm) \div 10000               \* line 26

\* one call of _haversine_distance on the arguments hcoord1, hcoord2
HaversineCall ==
    /\ hpc = "idle"
    /\ hresult' = _haversine_distance(hcoord1, hcoord2)
    /\ hpc' = "done"
    /\ UNCHANGED <<hcoord1, hcoord2>>
    /\ UNCHANGED <<dvars, bvars, ovars>>

-----------------------------------------------------------------------------
(* Location documents (entities/route_optimization.py, lines 28-37); the  *)
(* fields type, address and icon_url are never read by the engine.        *)

Loc(code, name, lat, lon) ==
    [code |-> code, name |-> name, coordinates |-> <<lat, lon>>]

\* the mock locations of _get_locations, lines 80-89
MockLocations == <<
    Loc("plant-a", "Plant A - Karawang", -63074, 1073103),
    Loc("plant-b", "Plant B - Surabaya", -71612, 1126535),
    Loc("warehouse-a", "Warehouse A - Jakarta", -62088, 1068166),
    Loc("warehouse-b", "Warehouse B - Bandung", -65950, 1068166),
    Loc("kios-bandung", "Kios Bandung", -69175, 1076191),
    Loc("kios-tasikmalaya", "Kios Tasikmalaya", -73156, 1082048),
    Loc("kios-sumedang", "Kios Sumedang", -69858, 1078148),
    Loc("kios-garut", "Kios Garut", -72070, 1079177) >>

-----------------------------------------------------------------------------
(* _build_graph, lines 56-70 *)

\* index of the last list element carrying `code`: a later assignment to
\* graph[loc1.code][loc2.code] overwrites an earlier one
LastIndex(locs, code) ==
    CHOOSE i \in 1..Len(locs) :
        /\ locs[i].code = code
        /\ \A j \in (i + 1)..Len(locs) : locs[j].code # code

Codes(locs) == {locs[i].code : i \in 1..Len(locs)}

\* lines 65-69
EdgeData(loc1, loc2) ==
    [distance |-> _haversine_distance(loc1.coordinates, loc2.coordinates),
     coord1 |-> loc1.coordinates,
     coord2 |-> loc2.coordinates]

\* lines 58-70: the defaultdict gets a key for every code that meets a
\* different code in the double loop
_build_graph_with_self_edges(locs) ==
    [u \in Codes(locs) |->
        [v \in Codes(locs) |->
            EdgeData(locs[LastIndex(locs, u)],
                     locs[LastIndex(locs, v)])]]

_build_graph(locs) ==
    [u \in {c \in Codes(locs) : Codes(locs) \ {c} # {}} |->
        [v \in Codes(locs) \ {u} |->
            EdgeData(locs[LastIndex(locs, u)],
                     locs[LastIndex(locs, v)])]]

\* the call returns the graph; no statement of lines 56-70 raises
BuildGraphCall ==
    /\ bpc = "idle"
    /\ bresult' = [kind |-> "graph", graph |-> _build_graph(blocations)]
    /\ bpc' = "done"
    /\ UNCHANGED blocations
    /\ UNCHANGED <<dvars, hvars, ovars>>

-----------------------------------------------------------------------------
(* Exact rational arithmetic for the float valuations.  A float is the     *)
(* record [n, d] of a reduced fraction with d > 0.                         *)

Abs(x) == IF x < 0 THEN -x ELSE x

RECURSIVE GCD(_, _)
GCD(a, b) == IF b = 0 THEN a ELSE GCD(b, a % b)

Rat(n, d) ==
    LET g == GCD(Abs(n), Abs(d))
        sg == IF d < 0 THEN -1 ELSE 1
    IN [n |-> sg * (n \div g), d |-> sg * (d \div g)]

RInt(i) == [n |-> i, d |-> 1]

\* a * b, reduced across the factors before multiplying
RMul(a, b) ==
    LET g1 == GCD(Abs(a.n), b.d)
        g2 == GCD(Abs(b.n), a.d)
    IN IF a.n = 0 \/ b.n = 0 THEN RInt(0)
       ELSE [n |-> (a.n \div g1) * (b.n \div g2), d |-> (a.d \div g2) * (b.d \div g1)]

\* a / b for b # 0
RDiv(a, b) == RMul(a, Rat(b.d, b.n))

RAdd(a, b) == Rat(a.n * b.d + b.n * a.d, a.d * b.d)

RSub(a, b) == RAdd(a, [n |-> -b.n, d |-> b.d])

RLess(a, b) == a.n * b.d < b.n * a.d

RLeq(a, b) == a.n * b.d <= b.n * a.d

\* min(a, b)
RMin(a, b) == IF RLess(b, a) THEN b ELSE a

\* int(x): truncation toward zero
RTrunc(a) == TruncDiv(a.n, a.d)

\* round(x): nearest integer, ties to the even one
RRound(a) ==
    LET f == a.n \div a.d
        r2 == 2 * (a.n - f * a.d)
    IN IF r2 < a.d THEN f
       ELSE IF r2 > a.d THEN f + 1
       ELSE IF f % 2 = 0 THEN f ELSE f + 1

\* round(x, 1): the rounded value in tenths
RRound1(a) == RRound(RMul(a, RInt(10)))

-----------------------------------------------------------------------------
(* Entities (entities/route_optimization.py) *)

\* Vehicle, lines 54-65; name and type are never read by the engine
Veh(code, mn, mx, fuel, speed, co2) ==
    [code |-> code, min_capacity |-> mn, max_capacity |-> mx,
     fuel_consumption |-> fuel, average_speed |-> speed, co2_factor |-> co2]

\* the mock vehicles of _get_vehicles, lines 99-103
MockVehicles == <<
    Veh("truck-small", 3, 5, RInt(8), 60, Rat(35, 100)),
    Veh("truck-medium", 5, 8, RInt(6), 55, Rat(40, 100)),
    Veh("truck-large", 8, 12, RInt(5), 50, Rat(45, 100)) >>

\* the vehicles seeded into the database (seed_service.py, lines 274-305)
SeedVehicles == <<
    Veh("truck-small", 3, 5, Rat(28, 10), 65, Rat(35, 100)),
    Veh("truck-medium", 6, 10, Rat(25, 10), 60, Rat(40, 100)),
    Veh("truck-large", 11, 15, Rat(22, 10), 55, Rat(45, 100)) >>

\* RouteConfiguration, lines 39-52
Config(origin, destination, vehicle_type, load, fd, cd, gd, fp, cp, gp) ==
    [origin |-> origin, destination |-> destination,
     vehicle_type |-> vehicle_type, load_capacity |-> load,
     fastest_distance |-> fd, cheapest_distance |-> cd, greenest_distance |-> gd,
     fastest_path |-> fp, cheapest_path |-> cp, greenest_path |-> gp]

\* a configuration seeded by seed_route_data.py, lines 121-132
SeedConfig ==
    Config("plant-a", "kios-bandung", "truck-small", 5, RInt(180), RInt(220), RInt(200),
           <<"plant-a", "warehouse-b", "kios-bandung">>,
           <<"plant-a", "warehouse-a", "kios-bandung">>,
           <<"plant-a", "warehouse-b", "kios-bandung">>)

\* the same route stored for a load below the vehicle's min_capacity
LowLoadConfig ==
    Config("plant-a", "kios-bandung", "truck-small", 2, RInt(180), RInt(220), RInt(200),
           <<"plant-a", "warehouse-b", "kios-bandung">>,
           <<"plant-a", "warehouse-a", "kios-bandung">>,
           <<"plant-a", "warehouse-b", "kios-bandung">>)

\* the same route stored for the load at which truck-small's load factor is 0
ZeroFactorConfig ==
    Config("plant-a", "kios-bandung", "truck-small", 1, RInt(180), RInt(220), RInt(200),
           <<"plant-a", "warehouse-b", "kios-bandung">>,
           <<"plant-a", "warehouse-a", "kios-bandung">>,
           <<"plant-a", "warehouse-b", "kios-bandung">>)

\* the same route stored for a load at which truck-small's load factor is
\* negative
NegativeFactorConfig ==
    Config("plant-a", "kios-bandung", "truck-small", 0, RInt(180), RInt(220), RInt(200),
           <<"plant-a", "warehouse-b", "kios-bandung">>,
           <<"plant-a", "warehouse-a", "kios-bandung">>,
           <<"plant-a", "warehouse-b", "kios-bandung">>)

\* a configuration of seed_route_data.py, lines 109-120, whose stored
\* fastest distance is not a whole number of metres
FractionalConfig ==
    Config("plant-a", "kios-garut", "truck-small", 5,
           Rat(2450015, 10000), RInt(280), RInt(260),
           <<"plant-a", "warehouse-b", "kios-bandung", "kios-garut">>,
           <<"plant-a", "warehouse-a", "kios-tasikmalaya", "kios-garut">>,
           <<"plant-a", "warehouse-b", "kios-sumedang", "kios-garut">>)

\* the declared fields of RouteOption, lines 6-14; none has a default, so
\* the constructor raises a ValidationError when one is not passed
RouteOptionFields ==
    {"id", "distance", "duration", "fuel_cost", "toll_cost", "co2", "path", "waypoints"}

\* outcomes of a call: a returned value or a raised exception
Ok(v) == [ok |-> TRUE, val |-> v]
Raise(type, message) == [ok |-> FALSE, type |-> type, message |-> message]

\* RouteOption(**kwargs): pydantic validation of the required fields
NewRouteOption(kwargs) ==
    IF RouteOptionFields \subseteq DOMAIN kwargs
    THEN Ok(kwargs)
    ELSE Raise("ValidationError",
               <<"RouteOption", "field required">> \o
               <<CHOOSE f \in RouteOptionFields \ DOMAIN kwargs : TRUE>>)

-----------------------------------------------------------------------------
(* Valuation *)

\* fuel_price, lines 118 and 221
FuelPrice == 15000

\* base_toll_cost_per_km / toll_cost_per_km, lines 121 and 222
BaseTollCostPerKm == 500

\* the cap of lines 113 and 217, 1.5
LoadFactorCap == Rat(3, 2)

\* lines 113 and 217:
\* min(1.0 + (load_capacity - min_capacity) / (max_capacity - min_capacity), 1.5)
LoadFactor(load, vehicle) ==
    RMin(RAdd(RInt(1), Rat(load - vehicle.min_capacity,
                           vehicle.max_capacity - vehicle.min_capacity)),
         LoadFactorCap)

\* lines 153-156 and 260-262: f"{hours}h {minutes}min"
Duration(duration_hours) ==
    LET hours == RTrunc(duration_hours)
        minutes == RTrunc(RMul(RSub(duration_hours, RInt(hours)), RInt(60)))
    IN <<hours, "h ", minutes, "min">>

\* location_dict = {loc.code: loc for loc in locations}, line 183
LocationDict(locs) == [c \in Codes(locs) |-> locs[LastIndex(locs, c)]]

\* vehicle_dict = {v.code: v for v in vehicles}, line 191
VehicleDict(vs) == [c \in Codes(vs) |-> vs[LastIndex(vs, c)]]

\* the unrounded locals of _create_route_option, lines 153-160
LiveLocals(option_type, distance, speed, fuel_consumption, fuel_price, toll_cost_per_km, co2_factor, lf) ==
    [id |-> option_type,
     source |-> "live",
     distance |-> distance,
     duration_hours |-> RDiv(distance, speed),                              \* 153
     fuel_cost |-> RMul(RMul(distance, fuel_price), fuel_consumption),     \* 158
     toll_cost |-> RMul(distance, toll_cost_per_km),                        \* 159
     co2 |-> RDiv(RMul(distance, co2_factor), lf)]                          \* 160

\* _create_route_option, lines 151-178
_create_route_option(option_type, distance, path, location_dict, speed, fuel_consumption, fuel_price, toll_cost_per_km, co2_factor, lf) ==
    IF speed.n = 0 THEN Raise("ZeroDivisionError", <<"float division by zero">>)
    ELSE
    LET v == LiveLocals(option_type, distance, speed, fuel_consumption,
                        fuel_price, toll_cost_per_km, co2_factor, lf)
        name(c) == IF c \in DOMAIN location_dict THEN location_dict[c].name ELSE c
        path_str == IF Len(path) >= 2                                       \* 163-168
                    THEN <<name(path[1]), " -> ", name(path[Len(path)])>>
                    ELSE <<"Invalid path">>
    IN NewRouteOption(                                                      \* 170-178
        [id |-> option_type,
         distance |-> RRound1(distance),
         duration |-> Duration(v.duration_hours),
         fuel_cost |-> RRound(v.fuel_cost),
         toll_cost |-> RRound(v.toll_cost),
         co2 |-> RRound1(v.co2),
         path |-> path_str])

\* RouteOptimizationResponse(fastest=, cheapest=, greenest=): the first
\* option whose construction raised aborts the call
Response(fastest, cheapest, greenest) ==
    IF ~fastest.ok THEN fastest
    ELSE IF ~cheapest.ok THEN cheapest
    ELSE IF ~greenest.ok THEN greenest
    ELSE Ok([fastest |-> fastest.val, cheapest |-> cheapest.val, greenest |-> greenest.val])

\* the option types in the order in which the options are constructed
\* (lines 133-147 and 225-233)
Variants == <<"fastest", "cheapest", "greenest">>

\* the arguments of the three _create_route_option calls, lines 128-147
LiveArgs(direct_distance, vehicle, lf) ==
    LET adjusted_speed == RDiv(RInt(vehicle.average_speed), lf)             \* 114
        adjusted_fuel_consumption == RMul(vehicle.fuel_consumption, lf)     \* 115
    IN [fastest |->
            [distance |-> direct_distance,                                  \* 128
             speed |-> adjusted_speed,
             fuel_consumption |-> adjusted_fuel_consumption,
             toll_cost_per_km |-> RMul(RInt(BaseTollCostPerKm), Rat(12, 10)),
             co2_factor |-> vehicle.co2_factor],
        cheapest |->
            [distance |-> RMul(direct_distance, Rat(11, 10)),               \* 129
             speed |-> RMul(adjusted_speed, Rat(9, 10)),
             fuel_consumption |-> RMul(adjusted_fuel_consumption, Rat(95, 100)),
             toll_cost_per_km |-> RMul(RInt(BaseTollCostPerKm), Rat(7, 10)),
             co2_factor |-> vehicle.co2_factor],
        greenest |->
            [distance |-> RMul(direct_distance, Rat(105, 100)),             \* 130
             speed |-> RMul(adjusted_speed, Rat(8, 10)),
             fuel_consumption |-> RMul(adjusted_fuel_consumption, Rat(9, 10)),
             toll_cost_per_km |-> RMul(RInt(BaseTollCostPerKm), Rat(9, 10)),
             co2_factor |-> RMul(vehicle.co2_factor, Rat(9, 10))]]

\* one of the calls of lines 133-147
LiveOption(k, a, path, location_dict, lf) ==
    _create_route_option(k, a[k].distance, path, location_dict,
        a[k].speed, a[k].fuel_consumption, RInt(FuelPrice),
        a[k].toll_cost_per_km, a[k].co2_factor, lf)

\* the outcomes of the option constructions (a table keyed by the variant) in
\* the order of the calls, up to
\* and including the first one that raised (the later ones are not evaluated)
Constructed(option) ==
    IF ~option[Variants[1]].ok THEN <<option[Variants[1]]>>
    ELSE IF ~option[Variants[2]].ok THEN <<option[Variants[1]], option[Variants[2]]>>
    ELSE <<option[Variants[1]], option[Variants[2]], option[Variants[3]]>>

\* the locals (lines 153-160 / 249-258) of the constructions that got past
\* the division of line 153 / 250-254
LocalsOfRun(option, locals) ==
    LET outs == Constructed(option)
        Past(i) == outs[i].ok \/ outs[i].type # "ZeroDivisionError"
        ran == SelectSeq([i \in 1..Len(outs) |-> i], Past)
    IN [i \in 1..Len(ran) |-> locals[Variants[ran[i]]]]

\* _compute_optimized_routes, lines 105-149
_compute_optimized_routes(req, location_dict, vehicle) ==
    LET origin_loc == location_dict[req.origin]
        dest_loc == location_dict[req.destination]
        direct_distance == RInt(_haversine_distance(origin_loc.coordinates,
                                                    dest_loc.coordinates))
    IN
    IF vehicle.max_capacity = vehicle.min_capacity
    THEN Raise("ZeroDivisionError", <<"float division by zero">>)           \* 113
    ELSE LET lf == LoadFactor(req.load_capacity, vehicle) IN
    IF lf.n = 0
    THEN Raise("ZeroDivisionError", <<"float division by zero">>)           \* 114
    ELSE
    LET a == LiveArgs(direct_distance, vehicle, lf)
        path == <<req.origin, req.destination>>
        option(k) == LiveOption(k, a, path, location_dict, lf)
    IN Response(option("fastest"), option("cheapest"), option("greenest"))

\* the codes of path_codes that are keys of location_dict, in order
\* (lines 244-246 and 266-268)
RECURSIVE PresentCodes(_, _)
PresentCodes(path_codes, location_dict) ==
    IF path_codes = << >> THEN << >>
    ELSE IF Head(path_codes) \in DOMAIN location_dict
         THEN <<Head(path_codes)>> \o PresentCodes(Tail(path_codes), location_dict)
         ELSE PresentCodes(Tail(path_codes), location_dict)

\* the unrounded locals of _create_route_option_from_db, lines 249-258
DbLocals(option_type, distance, speed, fuel_consumption, fuel_price, toll_cost_per_km, co2_factor, lf) ==
    [id |-> option_type,
     source |-> "database",
     distance |-> distance,
     duration_hours |->                                                     \* 249-254
        IF option_type = "fastest" THEN RDiv(distance, speed)
        ELSE IF option_type = "cheapest"
             THEN RDiv(distance, RMul(speed, Rat(8, 10)))
             ELSE RDiv(distance, RMul(speed, Rat(9, 10))),
     fuel_cost |-> RMul(RMul(distance, fuel_price), fuel_consumption),     \* 256
     toll_cost |-> RMul(distance, toll_cost_per_km),                        \* 257
     co2 |-> RDiv(RMul(distance, co2_factor), lf)]                          \* 258

\* _create_route_option_from_db, lines 241-280
_create_route_option_from_db(option_type, distance, path_codes, location_dict, speed, fuel_consumption, fuel_price, toll_cost_per_km, co2_factor, lf) ==
    IF speed.n = 0 THEN Raise("ZeroDivisionError", <<"float division by zero">>)
    ELSE
    LET present == PresentCodes(path_codes, location_dict)
        waypoints == [i \in 1..Len(present) |-> location_dict[present[i]].coordinates]
        v == DbLocals(option_type, distance, speed, fuel_consumption,
                      fuel_price, toll_cost_per_km, co2_factor, lf)
        path == [i \in 1..Len(present) |-> location_dict[present[i]].name]  \* 265-269
    IN NewRouteOption(                                                      \* 271-280
        [id |-> option_type,
         distance |-> RRound1(distance),
         duration |-> Duration(v.duration_hours),
         fuel_cost |-> RTrunc(v.fuel_cost),
         toll_cost |-> RTrunc(v.toll_cost),
         co2 |-> RRound1(v.co2),
         path |-> path,
         waypoints |-> waypoints])

\* the arguments of the three _create_route_option_from_db calls,
\* lines 225-233
DbArgs(route_config, vehicle, lf) ==
    LET adjusted_speed == RDiv(RInt(vehicle.average_speed), lf)             \* 218
        adjusted_fuel_consumption == RMul(vehicle.fuel_consumption, lf)     \* 219
        args(distance, path_codes) ==
            [distance |-> distance,
             path_codes |-> path_codes,
             speed |-> adjusted_speed,
             fuel_consumption |-> adjusted_fuel_consumption,
             toll_cost_per_km |-> RInt(BaseTollCostPerKm),                  \* 222
             co2_factor |-> vehicle.co2_factor]
    IN [fastest |-> args(route_config.fastest_distance, route_config.fastest_path),
        cheapest |-> args(route_config.cheapest_distance, route_config.cheapest_path),
        greenest |-> args(route_config.greenest_distance, route_config.greenest_path)]

\* one of the calls of lines 225-233
DbOption(k, a, location_dict, lf) ==
    _create_route_option_from_db(k, a[k].distance, a[k].path_codes,
        location_dict, a[k].speed, a[k].fuel_consumption, RInt(FuelPrice),
        a[k].toll_cost_per_km, a[k].co2_factor, lf)

\* _generate_from_database, lines 215-239
_generate_from_database(req, route_config, location_dict, vehicle) ==
    IF vehicle.max_capacity = vehicle.min_capacity
    THEN Raise("ZeroDivisionError", <<"float division by zero">>)           \* 217
    ELSE LET lf == LoadFactor(req.load_capacity, vehicle) IN
    IF lf.n = 0
    THEN Raise("ZeroDivisionError", <<"float division by zero">>)           \* 218
    ELSE
    LET a == DbArgs(route_config, vehicle, lf)
        option(k) == DbOption(k, a, location_dict, lf)
    IN Response(option("fastest"), option("cheapest"), option("greenest"))

\* the unrounded figures computed by a run of _compute_optimized_routes
ValuedLive(req, location_dict, vehicle) ==
    IF vehicle.max_capacity = vehicle.min_capacity THEN << >>
    ELSE LET lf == LoadFactor(req.load_capacity, vehicle) IN
    IF lf.n = 0 THEN << >>
    ELSE
    LET direct_distance ==
            RInt(_haversine_distance(location_dict[req.origin].coordinates,
                                     location_dict[req.destination].coordinates))
        a == LiveArgs(direct_distance, vehicle, lf)
        option(k) == LiveOption(k, a, <<req.origin, req.destination>>, location_dict, lf)
        locals(k) == LiveLocals(k, a[k].distance, a[k].speed, a[k].fuel_consumption,
                                RInt(FuelPrice), a[k].toll_cost_per_km, a[k].co2_factor, lf)
    IN LocalsOfRun([k \in Range(Variants) |-> option(k)],
                   [k \in Range(Variants) |-> locals(k)])

\* the unrounded figures computed by a run of _generate_from_database
ValuedDb(req, route_config, location_dict, vehicle) ==
    IF vehicle.max_capacity = vehicle.min_capacity THEN << >>
    ELSE LET lf == LoadFactor(req.load_capacity, vehicle) IN
    IF lf.n = 0 THEN << >>
    ELSE
    LET a == DbArgs(route_config, vehicle, lf)
        option(k) == DbOption(k, a, location_dict, lf)
        locals(k) == DbLocals(k, a[k].distance, a[k].speed, a[k].fuel_consumption,
                              RInt(FuelPrice), a[k].toll_cost_per_km, a[k].co2_factor, lf)
    IN LocalsOfRun([k \in Range(Variants) |-> option(k)],
                   [k \in Range(Variants) |-> locals(k)])

\* the load factors a valuation call computes (none when line 113/217 raises)
LoadFactorsOf(req, vehicle) ==
    IF vehicle.max_capacity = vehicle.min_capacity THEN << >>
    ELSE <<LoadFactor(req.load_capacity, vehicle)>>

-----------------------------------------------------------------------------
(* optimize_route, lines 180-213, one action per await *)

\* value of `result` while the call is running
Pending == Raise("pending", << >>)

\* line 187
InvalidLocationError(req) ==
    Raise("ValueError",
          <<"Invalid origin or destination: ", req.origin, " or ", req.destination>>)

\* line 193
InvalidVehicleErrorNoCode(req) ==
    Raise("ValueError", <<"Invalid vehicle type">>)

InvalidVehicleError(req) ==
    Raise("ValueError", <<"Invalid vehicle type: ", req.vehicle_type>>)

\* `self.database is not None and is_database_available()`,
\* lines 74, 93 and 197
DbUp == database /\ db_available

\* The frame of one optimize_route call: its argument, its position, its
\* locals and its outcome.  `calls` lists the collaborator calls it made,
\* `load_factor` and `valued` the figures its valuation computed.
Self ==
    [request |-> request, pc |-> pc, locations |-> locations,
     vehicles |-> vehicles, load_factor |-> load_factor, valued |-> valued,
     calls |-> calls, result |-> result]

\* the frame of the running call becomes c
SelfBecomes(c) ==
    /\ request' = c.request
    /\ pc' = c.pc
    /\ locations' = c.locations
    /\ vehicles' = c.vehicles
    /\ load_factor' = c.load_factor
    /\ valued' = c.valued
    /\ calls' = c.calls
    /\ result' = c.result

\* _get_locations, lines 72-89: the collection when the database is up and
\* the read succeeds, else the mock list (the except of lines 77-78)
_get_locations(readOk) == IF DbUp /\ readOk THEN dbLocations ELSE MockLocations

\* _get_vehicles, lines 91-103
_get_vehicles(readOk) == IF DbUp /\ readOk THEN dbVehicles ELSE MockVehicles

\* lines 182-187: await self._get_locations(), then the validation of
\* origin and destination
GetLocationsStep(c, locs) ==
    LET invalid == c.request.origin \notin Codes(locs)
                   \/ c.request.destination \notin Codes(locs)
    IN [c EXCEPT
        !.locations = locs,
        !.calls = IF DbUp THEN Append(@, "Location.find") ELSE @,
        !.result = IF invalid THEN InvalidLocationError(c.request) ELSE @,
        !.pc = IF invalid THEN "done" ELSE "vehicles"]

\* a vehicle step that queries the configurations before it rejects an
\* unknown vehicle_type
GetVehiclesStepAfterFind(c, vs) ==
    LET invalid == c.request.vehicle_type \notin Codes(vs)
    IN [c EXCEPT
        !.vehicles = vs,
        !.calls = IF DbUp
                  THEN IF invalid
                       THEN @ \o <<"Vehicle.find", "RouteConfiguration.find">>
                       ELSE Append(@, "Vehicle.find")
                  ELSE @,
        !.result = IF invalid THEN InvalidVehicleError(c.request) ELSE @,
        !.pc = IF invalid THEN "done" ELSE IF DbUp THEN "lookup" ELSE "compute"]

\* lines 190-197: await self._get_vehicles(), the validation of
\* vehicle_type, and the test that selects the configuration lookup
GetVehiclesStep(c, vs) ==
    LET invalid == c.request.vehicle_type \notin Codes(vs)
    IN [c EXCEPT
        !.vehicles = vs,
        !.calls = IF DbUp THEN Append(@, "Vehicle.find") ELSE @,
        !.result = IF invalid THEN InvalidVehicleError(c.request) ELSE @,
        !.pc = IF invalid THEN "done" ELSE IF DbUp THEN "lookup" ELSE "compute"]

\* a find() that does not compare the load
MatchesIgnoringLoad(config, req) ==
    /\ config.origin = req.origin
    /\ config.destination = req.destination
    /\ config.vehicle_type = req.vehicle_type

\* the four equalities of the find() of lines 199-204
Matches(config, req) ==
    /\ config.origin = req.origin
    /\ config.destination = req.destination
    /\ config.vehicle_type = req.vehicle_type
    /\ config.load_capacity = req.load_capacity

\* a lookup that finds nothing once some call has finished
MatchingUntilFirstReturn(configs, req) ==
    LET Test(c) == Matches(c, req)
    IN IF pc = "done" \/ peer.pc = "done" THEN << >> ELSE SelectSeq(configs, Test)

\* .first_or_none(): the matching documents, first one taken
Matching(configs, req) ==
    LET Test(c) == Matches(c, req) IN SelectSeq(configs, Test)

\* a lookup step without the except of lines 208-209: what the find() or the
\* construction raises leaves optimize_route
LookupStepSurfacing(c, findOk) ==
    LET found == Matching(dbConfigs, c.request)
        vehicle == VehicleDict(c.vehicles)[c.request.vehicle_type]
        location_dict == LocationDict(c.locations)
        out == _generate_from_database(c.request, found[1], location_dict, vehicle)
    IN
    IF ~findOk
    THEN [c EXCEPT !.calls = Append(@, "RouteConfiguration.find raised"),
                   !.result = Raise("Exception", <<"find failed">>),
                   !.pc = "done"]
    ELSE IF found = << >>
    THEN [c EXCEPT !.calls = Append(@, "RouteConfiguration.find"),
                   !.pc = "compute"]
    ELSE [c EXCEPT
        !.calls = @ \o <<"RouteConfiguration.find", "_generate_from_database">>,
        !.load_factor = @ \o LoadFactorsOf(c.request, vehicle),
        !.valued = @ \o ValuedDb(c.request, found[1], location_dict, vehicle),
        !.result = out,
        !.pc = "done"]

\* lines 198-210: the lookup and, when a configuration is found,
\* _generate_from_database; any exception is printed and swallowed
LookupStep(c, findOk) ==
    LET found == Matching(dbConfigs, c.request)
        vehicle == VehicleDict(c.vehicles)[c.request.vehicle_type]
        location_dict == LocationDict(c.locations)
        out == _generate_from_database(c.request, found[1], location_dict, vehicle)
    IN
    IF ~findOk
    THEN [c EXCEPT !.calls = Append(@, "RouteConfiguration.find raised"),
                   !.pc = "compute"]
    ELSE IF found = << >>
    THEN [c EXCEPT !.calls = Append(@, "RouteConfiguration.find"),
                   !.pc = "compute"]
    ELSE [c EXCEPT
        !.calls = @ \o <<"RouteConfiguration.find", "_generate_from_database">>,
        !.load_factor = @ \o LoadFactorsOf(c.request, vehicle),
        !.valued = @ \o ValuedDb(c.request, found[1], location_dict, vehicle),
        !.result = IF out.ok THEN out ELSE @,
        !.pc = IF out.ok THEN "done" ELSE "compute"]

\* line 213: the live computation; what it raises leaves optimize_route
ComputeStep(c) ==
    LET vehicle == VehicleDict(c.vehicles)[c.request.vehicle_type]
        location_dict == LocationDict(c.locations)
    IN [c EXCEPT
        !.calls = Append(@, "_compute_optimized_routes"),
        !.load_factor = @ \o LoadFactorsOf(c.request, vehicle),
        !.valued = @ \o ValuedLive(c.request, location_dict, vehicle),
        !.result = _compute_optimized_routes(c.request, location_dict, vehicle),
        !.pc = "done"]

\* optimize_route, one action per await; `peer` is a second call in flight
OptGetLocations ==
    /\ pc = "start"
    /\ \E readOk \in BOOLEAN :
        SelfBecomes(GetLocationsStep(Self, _get_locations(readOk)))
    /\ UNCHANGED <<database, db_available, dbLocations, dbVehicles, dbConfigs, peer>>
    /\ UNCHANGED <<dvars, bvars, hvars>>

OptGetVehicles ==
    /\ pc = "vehicles"
    /\ \E readOk \in BOOLEAN :
        SelfBecomes(GetVehiclesStep(Self, _get_vehicles(readOk)))
    /\ UNCHANGED <<database, db_available, dbLocations, dbVehicles, dbConfigs, peer>>
    /\ UNCHANGED <<dvars, bvars, hvars>>

\* a lookup step that stores the configuration it was asked for
OptLookupSaving ==
    /\ pc = "lookup"
    /\ \E findOk \in BOOLEAN : SelfBecomes(LookupStep(Self, findOk))
    /\ dbConfigs' = Append(dbConfigs, [SeedConfig EXCEPT
                        !.origin = request.origin,
                        !.destination = request.destination,
                        !.vehicle_type = request.vehicle_type,
                        !.load_capacity = request.load_capacity])
    /\ UNCHANGED <<database, db_available, dbLocations, dbVehicles, peer>>
    /\ UNCHANGED <<dvars, bvars, hvars>>

OptLookup ==
    /\ pc = "lookup"
    /\ \E findOk \in BOOLEAN : SelfBecomes(LookupStep(Self, findOk))
    /\ UNCHANGED <<database, db_available, dbLocations, dbVehicles, dbConfigs, peer>>
    /\ UNCHANGED <<dvars, bvars, hvars>>

OptCompute ==
    /\ pc = "compute"
    /\ SelfBecomes(ComputeStep(Self))
    /\ UNCHANGED <<database, db_available, dbLocations, dbVehicles, dbConfigs, peer>>
    /\ UNCHANGED <<dvars, bvars, hvars>>

\* the same four steps taken by the second call
PeerGetLocations ==
    /\ peer.pc = "start"
    /\ \E readOk \in BOOLEAN :
        peer' = GetLocationsStep(peer, _get_locations(readOk))
    /\ UNCHANGED <<database, db_available, dbLocations, dbVehicles, dbConfigs,
                   request, pc, locations, vehicles, load_factor, valued, calls, result>>
    /\ UNCHANGED <<dvars, bvars, hvars>>

PeerGetVehicles ==
    /\ peer.pc = "vehicles"
    /\ \E readOk \in BOOLEAN :
        peer' = GetVehiclesStep(peer, _get_vehicles(readOk))
    /\ UNCHANGED <<database, db_available, dbLocations, dbVehicles, dbConfigs,
                   request, pc, locations, vehicles, load_factor, valued, calls, result>>
    /\ UNCHANGED <<dvars, bvars, hvars>>

PeerLookup ==
    /\ peer.pc = "lookup"
    /\ \E findOk \in BOOLEAN : peer' = LookupStep(peer, findOk)
    /\ UNCHANGED <<database, db_available, dbLocations, dbVehicles, dbConfigs,
                   request, pc, locations, vehicles, load_factor, valued, calls, result>>
    /\ UNCHANGED <<dvars, bvars, hvars>>

\* a live computation that leaves its load factor on the repository, where
\* the other call's frame sees it
PeerComputeSharedAttribute ==
    /\ peer.pc = "compute"
    /\ peer' = ComputeStep(peer)
    /\ load_factor' = peer'.load_factor
    /\ UNCHANGED <<database, db_available, dbLocations, dbVehicles, dbConfigs,
                   request, pc, locations, vehicles, valued, calls, result>>
    /\ UNCHANGED <<dvars, bvars, hvars>>

PeerCompute ==
    /\ peer.pc = "compute"
    /\ peer' = ComputeStep(peer)
    /\ UNCHANGED <<database, db_available, dbLocations, dbVehicles, dbConfigs,
                   request, pc, locations, vehicles, load_factor, valued, calls, result>>
    /\ UNCHANGED <<dvars, bvars, hvars>>

\* the route handler (handler/routes/route_optimization.py, lines 30-42):
\* the response, or HTTP 500 carrying str(e)
HandlerOutcome(res) ==
    IF res.ok
    THEN [status |-> 200, body |-> res.val]
    ELSE [status |-> 500, detail |-> <<"Route optimization failed: ">> \o res.message]

-----------------------------------------------------------------------------
(* Inputs of optimize_route *)

\* requested loads are drawn from 0..MaxLoad
MaxLoad == 6

\* the locations seeded into the database (seed_route_data.py, lines 26-91)
SeedLocations == <<
    Loc("plant-a", "Plant A - Karawang", -63074, 1073103),
    Loc("plant-b", "Plant B - Surabaya", -71612, 1126535),
    Loc("warehouse-a", "Warehouse A - Jakarta", -62088, 1068166),
    Loc("warehouse-b", "Warehouse B - Cirebon", -65950, 1068166),
    Loc("kios-bandung", "Kiosk Bandung", -69175, 1076191),
    Loc("kios-tasikmalaya", "Kiosk Tasikmalaya", -73156, 1082048),
    Loc("kios-sumedang", "Kiosk Sumedang", -69858, 1078148),
    Loc("kios-garut", "Kiosk Garut", -72070, 1079177) >>

\* contents of the three collections
DbLocationLists ==
    { << >>, <<SeedLocations[1]>>, <<SeedLocations[1], SeedLocations[5]>>, SeedLocations }

DbVehicleLists == { << >>, SeedVehicles }

DbConfigLists ==
    { << >>, <<SeedConfig>>,
      <<SeedConfig, LowLoadConfig, ZeroFactorConfig, FractionalConfig,
        NegativeFactorConfig>> }

RequestCodes == {"plant-a", "kios-bandung", "kios-garut", "nowhere"}

RequestVehicles == {"truck-small", "truck-medium", "bike"}

Requests ==
    [origin : RequestCodes, destination : RequestCodes,
     vehicle_type : RequestVehicles, load_capacity : 0..MaxLoad]

\* the frame of a call that has not made its first step
NewCall(req) ==
    [request |-> req, pc |-> "start", locations |-> << >>, vehicles |-> << >>,
     load_factor |-> << >>, valued |-> << >>, calls |-> << >>, result |-> Pending]

\* no second call
PeerOff ==
    [NewCall([origin |-> "nowhere", destination |-> "nowhere",
              vehicle_type |-> "bike", load_capacity |-> 0]) EXCEPT !.pc = "off"]

OptimizeOff ==
    /\ database = FALSE
    /\ db_available = FALSE
    /\ dbLocations = << >>
    /\ dbVehicles = << >>
    /\ dbConfigs = << >>
    /\ request = [origin |-> "nowhere", destination |-> "nowhere",
                  vehicle_type |-> "bike", load_capacity |-> 0]
    /\ pc = "off"
    /\ locations = << >>
    /\ vehicles = << >>
    /\ load_factor = << >>
    /\ valued = << >>
    /\ calls = << >>
    /\ result = Pending
    /\ peer = PeerOff

\* Bound of the builder's input list
MaxLocs == 3

\* Locations the input lists are drawn from: four of the mock locations
\* and a document with a code of its own at the coordinates of plant-a
LocationUniverse ==
    {MockLocations[1], MockLocations[3], MockLocations[5], MockLocations[7],
     Loc("depot-x", "Depot X", -63074, 1073103)}

DijkstraOff ==
    /\ graph = [u \in Nodes |-> << >>]
    /\ start = Absent
    /\ end = Absent
    /\ queue = {}
    /\ visited = {}
    /\ min_cost = << >>
    /\ dpc = "off"
    /\ dresult = NoResult

BuildOff ==
    /\ blocations = << >>
    /\ bpc = "off"
    /\ bresult = [kind |-> "none"]

HaversineOff ==
    /\ hcoord1 = <<0, 0>>
    /\ hcoord2 = <<0, 0>>
    /\ hpc = "off"
    /\ hresult = -1

InitBuild ==
    /\ blocations \in UNION {[1..n -> LocationUniverse] : n \in 0..MaxLocs}
    /\ bpc = "idle"
    /\ bresult = [kind |-> "none"]
    /\ HaversineOff
    /\ DijkstraOff
    /\ OptimizeOff

NextBuild == BuildGraphCall

SpecBuild == InitBuild /\ [][NextBuild]_vars

\* Latitudes and longitudes the arguments of a distance call are drawn from,
\* in 1e-4 degree: those of the mock and seeded locations of Java and the
\* corners of a box around them
CoordLats == {-79000, -71612, -69175, -63074, -60000}
CoordLons == {1050000, 1073103, 1076191, 1126535, 1140000}
Coords == CoordLats \X CoordLons

InitDistance ==
    /\ hcoord1 \in Coords
    /\ hcoord2 \in Coords
    /\ hpc = "idle"
    /\ hresult = -1
    /\ DijkstraOff
    /\ BuildOff
    /\ OptimizeOff

NextDistance == HaversineCall

SpecDistance == InitDistance /\ [][NextDistance]_vars

\* coordinates of the location carrying `code` in a list of distinct codes
CoordOf(locs, code) ==
    locs[CHOOSE i \in 1..Len(locs) : locs[i].code = code].coordinates

DistinctCodes(locs) ==
    \A i, j \in 1..Len(locs) : i # j => locs[i].code # locs[j].code

(* C8: for a list of 2 or more locations with distinct codes, the graph    *)
(* has exactly one edge u->v for every ordered pair of distinct codes and  *)
(* no self-edge; the edge's distance is the distance between the           *)
(* coordinates of u and v (the same in both directions) and coord1/coord2  *)
(* are the coordinates of u and v.                                         *)
C8_CompleteGraph ==
    (bpc = "done" /\ Len(blocations) >= 2 /\ DistinctCodes(blocations)) =>
        /\ bresult.kind = "graph"
        /\ DOMAIN bresult.graph = Codes(blocations)
        /\ \A u \in Codes(blocations) :
            /\ DOMAIN bresult.graph[u] = Codes(blocations) \ {u}
            /\ \A v \in Codes(blocations) \ {u} :
                /\ bresult.graph[u][v].distance =
                        _haversine_distance(CoordOf(blocations, u), CoordOf(blocations, v))
                /\ bresult.graph[u][v].distance = bresult.graph[v][u].distance
                /\ bresult.graph[u][v].coord1 = CoordOf(blocations, u)
                /\ bresult.graph[u][v].coord2 = CoordOf(blocations, v)

\* a graph built from three locations with distinct codes
C8_Witness ==
    /\ bpc = "done"
    /\ Len(blocations) = 3 /\ DistinctCodes(blocations)
    /\ \E u \in DOMAIN bresult.graph : \E v \in DOMAIN bresult.graph[u] :
            bresult.graph[u][v].distance > 0

(* C9: the graph builder returns an error when it is given fewer than 2    *)
(* locations, and never fails when given 2 or more.                        *)
C9_ErrorBelowTwo ==
    bpc = "done" =>
        /\ (Len(blocations) < 2 => bresult.kind = "error")
        /\ (Len(blocations) >= 2 => bresult.kind = "graph")

-----------------------------------------------------------------------------
(* Inputs of the search *)

EdgePairs == {p \in Nodes \X Nodes : p[1] # p[2]}
NodePairs == {{u, v} : u, v \in Nodes} \ {{u} : u \in Nodes}

\* the graph dict built from a choice of present edges with their
\* weight_func values and the distance of every unordered pair
MkGraph(eo, pd) ==
    [u \in Nodes |->
        [v \in {w \in Nodes : w # u /\ eo[<<u, w>>] # NoEdge} |->
            [distance |-> pd[{u, v}], weight |-> eo[<<u, v>>][1]]]]

InitDijkstra ==
    /\ \E eo \in [EdgePairs -> {NoEdge} \cup {<<w>> : w \in 0..MaxCost}],
          pd \in [NodePairs -> DistValues] :
            graph = MkGraph(eo, pd)
    /\ start \in Nodes
    /\ end \in Nodes \cup {Absent}
    /\ queue = {}
    /\ visited = {}
    /\ min_cost = << >>
    /\ dpc = "idle"
    /\ dresult = NoResult
    /\ BuildOff
    /\ HaversineOff
    /\ OptimizeOff

NextDijkstra ==
    \/ DijkstraCall
    \/ DijkstraSkip
    \/ DijkstraReturn
    \/ DijkstraExpand
    \/ DijkstraNoPath

SpecDijkstra == InitDijkstra /\ [][NextDijkstra]_vars

\* The search under any edge-cost function: weight_func values of either
\* sign, every distance 1
MinCost == -1

InitDijkstraAny ==
    /\ \E eo \in [EdgePairs -> {NoEdge} \cup {<<w>> : w \in MinCost..MaxCost}] :
            graph = MkGraph(eo, [p \in NodePairs |-> 1])
    /\ start \in Nodes
    /\ end \in Nodes \cup {Absent}
    /\ queue = {}
    /\ visited = {}
    /\ min_cost = << >>
    /\ dpc = "idle"
    /\ dresult = NoResult
    /\ BuildOff
    /\ HaversineOff
    /\ OptimizeOff

SpecDijkstraAny == InitDijkstraAny /\ [][NextDijkstra]_vars

\* The runs checked for termination: the searches from node "a" over the
\* same graphs and end nodes.  _dijkstra is a synchronous function: once
\* called, its loop takes its next step until it returns.
InitDijkstraFair == InitDijkstraAny /\ start = "a"

SpecDijkstraFair == InitDijkstraFair /\ [][NextDijkstra]_vars /\ WF_vars(NextDijkstra)

Init ==
    /\ database \in BOOLEAN
    /\ db_available \in BOOLEAN
    /\ dbLocations \in DbLocationLists
    /\ dbVehicles \in DbVehicleLists
    /\ dbConfigs \in DbConfigLists
    /\ request \in Requests
    /\ pc = "start"
    /\ locations = << >>
    /\ vehicles = << >>
    /\ load_factor = << >>
    /\ valued = << >>
    /\ calls = << >>
    /\ result = Pending
    /\ peer = PeerOff
    /\ DijkstraOff
    /\ BuildOff
    /\ HaversineOff

Next ==
    \/ OptGetLocations
    \/ OptGetVehicles
    \/ OptLookup
    \/ OptCompute

Spec == Init /\ [][Next]_vars

\* Two optimize_route calls in flight on one repository: the same route and
\* vehicle, each with a load of its own, interleaved at their awaits.  The
\* two frames play the same role, so the smaller load is given to the first.
PairRequests ==
    [origin : {"plant-a"}, destination : {"kios-bandung"},
     vehicle_type : {"truck-small"}, load_capacity : 0..MaxLoad]

InitPair ==
    /\ database = TRUE
    /\ db_available \in BOOLEAN
    /\ dbLocations = SeedLocations
    /\ dbVehicles = SeedVehicles
    /\ dbConfigs \in DbConfigLists
    /\ request \in PairRequests
    /\ pc = "start"
    /\ locations = << >>
    /\ vehicles = << >>
    /\ load_factor = << >>
    /\ valued = << >>
    /\ calls = << >>
    /\ result = Pending
    /\ \E load \in request.load_capacity..MaxLoad :
        peer = NewCall([request EXCEPT !.load_capacity = load])
    /\ DijkstraOff
    /\ BuildOff
    /\ HaversineOff

NextPair ==
    \/ OptGetLocations
    \/ OptGetVehicles
    \/ OptLookup
    \/ OptCompute
    \/ PeerGetLocations
    \/ PeerGetVehicles
    \/ PeerLookup
    \/ PeerCompute

SpecPair == InitPair /\ [][NextPair]_vars

-----------------------------------------------------------------------------
(* Claims about optimize_route *)

\* the request's three codes are in the location and vehicle lists the call read
ValidReferences ==
    /\ request.origin \in Codes(locations)
    /\ request.destination \in Codes(locations)
    /\ request.vehicle_type \in Codes(vehicles)

\* f"{hours}h {minutes}min" with integer hours and minutes
IsDurationString(d) ==
    /\ Len(d) = 4
    /\ d[1] \in Int /\ d[2] = "h " /\ d[3] \in Int /\ d[4] = "min"

(* C1: for a request whose origin, destination and vehicle_type exist,     *)
(* with origin # destination and no matching cached RouteConfiguration (or *)
(* the database unavailable), optimize_route returns a response holding    *)
(* exactly the three options 'fastest', 'cheapest' and 'greenest', each    *)
(* with distance > 0 and a duration of the form 'Xh Ymin'.                 *)
C1_ThreeOptions ==
    (/\ pc = "done"
     /\ ValidReferences
     /\ request.origin # request.destination
     /\ (~DbUp \/ Matching(dbConfigs, request) = << >>)) =>
        /\ result.ok
        /\ DOMAIN result.val = {"fastest", "cheapest", "greenest"}
        /\ \A k \in {"fastest", "cheapest", "greenest"} :
            /\ result.val[k].id = k
            /\ result.val[k].distance > 0
            /\ IsDurationString(result.val[k].duration)

(* C2: when the request's origin, destination or vehicle_type code is not  *)
(* in the current location/vehicle set, optimize_route fails with an       *)
(* invalid-reference error (the ValueError of lines 187 and 193) that      *)
(* names the offending code, and the handler returns no response body.     *)
C2_InvalidReference ==
    LET lc == Codes(locations)
        bad == {c \in {request.origin, request.destination} : c \notin lc}
        out == HandlerOutcome(result)
    IN
    /\ (pc = "done" /\ bad # {}) =>
        /\ ~result.ok
        /\ result.type = "ValueError"
        /\ bad \subseteq Range(result.message)
        /\ out.status = 500
        /\ "body" \notin DOMAIN out
        /\ bad \subseteq Range(out.detail)
    /\ (pc = "done" /\ bad = {} /\ request.vehicle_type \notin Codes(vehicles)) =>
        /\ ~result.ok
        /\ result.type = "ValueError"
        /\ request.vehicle_type \in Range(result.message)
        /\ out.status = 500
        /\ "body" \notin DOMAIN out
        /\ request.vehicle_type \in Range(out.detail)

\* a finished call that was rejected for its vehicle_type after its origin
\* and destination were accepted against the database's locations
C2_Witness ==
    /\ pc = "done"
    /\ locations = dbLocations
    /\ {request.origin, request.destination} \subseteq Codes(locations)
    /\ request.vehicle_type \notin Codes(vehicles)
    /\ ~result.ok
    /\ request.vehicle_type \in Range(result.message)

(* C3: optimize_route never rejects a request because of its load: for     *)
(* every request whose origin, destination and vehicle_type exist, and for *)
(* every load_capacity, the call completes with a response.                *)
C3_NoLoadRejection ==
    (pc = "done" /\ ValidReferences) => result.ok

(* C4: when the snapshot holds only one location, optimize_route fails     *)
(* with a DegenerateInput error, distinct from the invalid-reference       *)
(* error raised for an unknown code.                                       *)
C4_DegenerateInput ==
    (pc = "done" /\ Len(locations) = 1) =>
        /\ ~result.ok
        /\ result.type = "DegenerateInput"
        /\ result.type # InvalidLocationError(request).type

(* C10: for every vehicle with min_capacity < max_capacity and every       *)
(* requested load, the load factor used by the valuation (live and cached  *)
(* path alike) satisfies 1 <= load_factor <= 1.5.                          *)
C10_LoadFactorRange ==
    \A i \in 1..Len(load_factor) :
        /\ RLeq(RInt(1), load_factor[i])
        /\ RLeq(load_factor[i], Rat(3, 2))

(* C13: in every response of optimize_route, built live or from a stored   *)
(* configuration, fastest.toll_cost >= cheapest.toll_cost.                 *)
C13_TollOrder ==
    (pc = "done" /\ result.ok) =>
        result.val.fastest.toll_cost >= result.val.cheapest.toll_cost

\* the stored configurations equal to the request on all four fields
ExactMatches ==
    {i \in 1..Len(dbConfigs) :
        /\ dbConfigs[i].origin = request.origin
        /\ dbConfigs[i].destination = request.destination
        /\ dbConfigs[i].vehicle_type = request.vehicle_type
        /\ dbConfigs[i].load_capacity = request.load_capacity}

\* the stored distance and path of configuration cfg for variant k
StoredDistance(cfg, k) ==
    IF k = "fastest" THEN cfg.fastest_distance
    ELSE IF k = "cheapest" THEN cfg.cheapest_distance ELSE cfg.greenest_distance

StoredPath(cfg, k) ==
    IF k = "fastest" THEN cfg.fastest_path
    ELSE IF k = "cheapest" THEN cfg.cheapest_path ELSE cfg.greenest_path

\* the divisions of the valuation are defined for the request's vehicle and load
ValuationDefined ==
    LET vehicle == VehicleDict(vehicles)[request.vehicle_type] IN
    /\ vehicle.max_capacity # vehicle.min_capacity
    /\ LoadFactor(request.load_capacity, vehicle).n # 0

PathCodesOf(k) ==
    IF "_generate_from_database" \in Range(calls) /\ ExactMatches # {}
    THEN StoredPath(dbConfigs[CHOOSE i \in ExactMatches : \A j \in ExactMatches : i <= j], k)
    ELSE <<request.origin, request.destination>>

(* C16: every RouteOption returned by optimize_route carries a waypoints   *)
(* list derived from its path: one coordinate pair per location code of    *)
(* the variant's path, in path order, starting with the origin's           *)
(* coordinates and ending with the destination's.                          *)
C16_Waypoints ==
    (pc = "done" /\ result.ok) =>
        \A k \in Range(Variants) :
            LET codes == PathCodesOf(k)
                w == result.val[k].waypoints
            IN /\ Len(w) = Len(codes)
               /\ \A i \in 1..Len(codes) :
                    /\ codes[i] \in Codes(locations)
                    /\ w[i] = CoordOf(locations, codes[i])
               /\ w[1] = CoordOf(locations, request.origin)
               /\ w[Len(w)] = CoordOf(locations, request.destination)

(* C17: in every RouteOption returned by optimize_route, distance and co2  *)
(* are the unrounded values rounded to 1 decimal, and fuel_cost and        *)
(* toll_cost are the unrounded values rounded to the nearest integer.      *)
C17_Rounding ==
    (pc = "done" /\ result.ok) =>
        \A i \in 1..Len(valued) :
            LET v == valued[i]
                option == result.val[v.id]
            IN /\ option.distance = RRound1(v.distance)
               /\ option.co2 = RRound1(v.co2)
               /\ option.fuel_cost = RRound(v.fuel_cost)
               /\ option.toll_cost = RRound(v.toll_cost)

\* the collaborator calls that read, and the engine's own functions
ReadOnlyCalls ==
    {"Location.find", "Vehicle.find", "RouteConfiguration.find",
     "RouteConfiguration.find raised",
     "_generate_from_database", "_compute_optimized_routes"}

(* C18: optimize_route leaves the location set, the vehicle set and the    *)
(* stored route configurations unchanged and writes nothing to the         *)
(* database: every step of a call, on success and on error alike, keeps    *)
(* the three collections and the connection state, and the only database   *)
(* operations it issues are find() reads.                                  *)
C18_NoWrites ==
    [][/\ dbLocations' = dbLocations
       /\ dbVehicles' = dbVehicles
       /\ dbConfigs' = dbConfigs
       /\ database' = database
       /\ db_available' = db_available
       /\ Range(calls') \subseteq ReadOnlyCalls]_vars

\* a call that read all three collections and returned a response
C18_Witness ==
    /\ pc = "done"
    /\ result.ok
    /\ calls = <<"Location.find", "Vehicle.find", "RouteConfiguration.find",
                 "_generate_from_database">>
    /\ locations = dbLocations
    /\ vehicles = dbVehicles

-----------------------------------------------------------------------------
(* Claims about two calls on one snapshot *)

\* both calls have returned or raised
BothDone == pc = "done" /\ peer.pc = "done"

\* neither call met a failing database read: both read the same locations
\* and vehicles and no configuration lookup raised
SameReads ==
    /\ locations = peer.locations
    /\ vehicles = peer.vehicles
    /\ "RouteConfiguration.find raised" \notin Range(calls) \cup Range(peer.calls)

\* the figures the two calls computed for the same variant, as pairs
\* <<main call's, second call's>>
SameVariant ==
    {<<valued[i], peer.valued[j]>> : i \in 1..Len(valued), j \in 1..Len(peer.valued)}
        \cap {p \in Range(valued) \X Range(peer.valued) : p[1].id = p[2].id}

(* C11: for a fixed origin, destination, vehicle and snapshot and two      *)
(* loads L1 <= L2, the duration and the fuel cost computed for each        *)
(* variant at L2 are not smaller than those computed at L1.                *)
C11_DurationFuelMonotone ==
    (/\ BothDone /\ SameReads
     /\ request.load_capacity <= peer.request.load_capacity) =>
        \A p \in SameVariant :
            /\ RLeq(p[1].duration_hours, p[2].duration_hours)
            /\ RLeq(p[1].fuel_cost, p[2].fuel_cost)

(* C12: for a fixed origin, destination, vehicle and snapshot and two      *)
(* loads L1 <= L2, the CO2 computed for each variant at L2 is not smaller  *)
(* than the CO2 computed at L1.                                            *)
C12_Co2Monotone ==
    (/\ BothDone /\ SameReads
     /\ request.load_capacity <= peer.request.load_capacity) =>
        \A p \in SameVariant : RLeq(p[1].co2, p[2].co2)

\* the configuration lookups of the two calls ended alike: both returned
\* or both raised
SameLookup ==
    ("RouteConfiguration.find raised" \in Range(calls))
        <=> ("RouteConfiguration.find raised" \in Range(peer.calls))

Alone(c) ==
    LET findOk == "RouteConfiguration.find raised" \notin Range(c.calls)
        s1 == GetLocationsStep(NewCall(c.request), c.locations)
        s2 == IF s1.pc = "vehicles" THEN GetVehiclesStep(s1, c.vehicles) ELSE s1
        s3 == IF s2.pc = "lookup" THEN LookupStep(s2, findOk) ELSE s2
    IN IF s3.pc = "compute" THEN ComputeStep(s3) ELSE s3

(* C19: calls of optimize_route interleave at their awaits without         *)
(* coordination: a step of one call changes neither the other call's       *)
(* frame nor the snapshot, and each finished call holds the result it      *)
(* returns when run alone on that snapshot.                                *)
C19_Interleaving ==
    /\ [](/\ pc = "done" => Self = Alone(Self)
          /\ peer.pc = "done" => peer = Alone(peer))
    /\ [][/\ Self' = Self \/ peer' = peer
          /\ UNCHANGED <<database, db_available, dbLocations, dbVehicles, dbConfigs>>]_vars

\* the first call has returned a response while the second, asking for
\* another load, is between its second and third await
C19_Witness ==
    /\ pc = "done"
    /\ result.ok
    /\ peer.pc = "lookup"
    /\ peer.request # request

-----------------------------------------------------------------------------
(* Paths of a graph, defined independently of the search *)

\* node sequences of up to one more node than the graph has (walks that
\* revisit a node included)
Walks == UNION {[1..n -> Nodes] : n \in 1..(Cardinality(Nodes) + 1)}

IsPath(g, p) ==
    \A i \in 1..(Len(p) - 1) : p[i + 1] \in DOMAIN Neighbors(g, p[i])

\* the walks grouped by their first and last node
WalksByEnds ==
    [s \in Nodes, t \in Nodes \cup {Absent} |->
        {p \in Walks : p[1] = s /\ p[Len(p)] = t}]

PathsFromTo(g, s, t) ==
    {p \in WalksByEnds[s, t] : IsPath(g, p)}

PathCost(g, p) ==
    SumSeq([i \in 1..(Len(p) - 1) |-> weight_func(g[p[i]][p[i + 1]])])

PathDist(g, p) ==
    SumSeq([i \in 1..(Len(p) - 1) |-> g[p[i]][p[i + 1]].distance])

MinOf(S) == CHOOSE x \in S : \A y \in S : x <= y

\* nodes that carry at least one edge
GraphNodes(g) ==
    {u \in DOMAIN g : DOMAIN g[u] # {}} \cup UNION {DOMAIN g[u] : u \in DOMAIN g}

Complete(g) ==
    \A u, v \in GraphNodes(g) : u # v => v \in DOMAIN g[u]

TriangleOK(g) ==
    \A u, v, w \in GraphNodes(g) :
        (u # v /\ v # w /\ u # w) =>
            g[u][w].distance <= g[u][v].distance + g[v][w].distance

-----------------------------------------------------------------------------
(* C5: when end is reachable from start, the total_cost returned by        *)
(* _dijkstra is the minimum over all paths from start to end of the sum of *)
(* the (non-negative) edge costs, and so never exceeds the cost of the     *)
(* direct start-to-end edge.                                               *)
C5_MinimalCost ==
    (dpc = "done" /\ PathsFromTo(graph, start, end) # {}) =>
        /\ dresult.cost = MinOf({PathCost(graph, p) : p \in PathsFromTo(graph, start, end)})
        /\ (end \in DOMAIN Neighbors(graph, start) =>
                dresult.cost <= weight_func(graph[start][end]))

\* a finished search whose cheapest path has two hops and beats the direct edge
C5_Witness ==
    /\ dpc = "done"
    /\ end \in DOMAIN Neighbors(graph, start)
    /\ Len(dresult.path) = 3
    /\ dresult.cost < weight_func(graph[start][end])

(* C6: on a complete graph of 2 or more nodes whose distances satisfy the  *)
(* triangle inequality, for start # end the search returns a non-empty     *)
(* path from start to end along edges of the graph, without a repeated     *)
(* node, whose total distance is at least the direct distance.             *)
C6_PathShape ==
    (/\ dpc = "done"
     /\ Complete(graph) /\ TriangleOK(graph)
     /\ start # end
     /\ {start, end} \subseteq GraphNodes(graph)) =>
        /\ dresult.path # << >>
        /\ Head(dresult.path) = start
        /\ dresult.path[Len(dresult.path)] = end
        /\ IsPath(graph, dresult.path)
        /\ NoRepeat(dresult.path)
        /\ dresult.dist >= graph[start][end].distance

\* a finished search on a complete 3-node graph that took the two-hop route
C6_Witness ==
    /\ dpc = "done"
    /\ GraphNodes(graph) = Nodes /\ Complete(graph) /\ TriangleOK(graph)
    /\ start # end
    /\ Len(dresult.path) = 3
    /\ dresult.dist > graph[start][end].distance

(* C7: when the queue empties before the end node is popped (end           *)
(* unreachable from start or absent from the graph) the search returns     *)
(* cost = +infinity, an empty path and distance 0.                         *)
C7_NoPath ==
    /\ (dpc = "done" /\ PathsFromTo(graph, start, end) = {}) =>
            /\ end \notin visited
            /\ dresult = [cost |-> Infinity, path |-> << >>, dist |-> 0]
    /\ (dpc = "done" /\ end \notin visited) =>
            dresult = [cost |-> Infinity, path |-> << >>, dist |-> 0]

\* a finished search for an end node that is a key of the graph but has no
\* incoming path, after the other nodes were expanded
C7_Witness ==
    /\ dpc = "done"
    /\ end \in Nodes
    /\ PathsFromTo(graph, start, end) = {}
    /\ Cardinality(visited) = 2
    /\ queue = {}

-----------------------------------------------------------------------------
(* Claims about the distance function                                      *)

\* C20: the distance function is symmetric and zero on identical points:
\* a call on (a, b) returns what the function gives for (b, a), and a call
\* on (a, a) returns 0.
C20_Symmetric ==
    hpc = "done" =>
        /\ hresult = _haversine_distance(hcoord2, hcoord1)
        /\ hcoord1 = hcoord2 => hresult = 0

\* a call on two points that differ in latitude and in longitude has returned
\* a positive distance
C20_Witness ==
    /\ hpc = "done"
    /\ hcoord1[1] # hcoord2[1]
    /\ hcoord1[2] # hcoord2[2]
    /\ hresult > 0

-----------------------------------------------------------------------------
(* Claims about the order of the steps of optimize_route *)

\* the configuration lookup, the construction from a configuration and the
\* live computation, as they appear in `calls`
EngineCalls ==
    {"RouteConfiguration.find", "RouteConfiguration.find raised",
     "_generate_from_database", "_compute_optimized_routes"}

(* C21: optimize_route checks origin and destination against the location *)
(* set, then vehicle_type against the vehicle set, before any             *)
(* RouteConfiguration lookup and before any distance computation: a call  *)
(* that has made a lookup or a computation has accepted all three codes,  *)
(* a call rejected for a code has made none, and a call rejected for its  *)
(* origin or destination has not read the vehicles.                        *)
C21_ValidateFirst ==
    /\ Range(calls) \cap EngineCalls # {} => ValidReferences
    /\ pc \in {"lookup", "compute"} => ValidReferences
    /\ (pc = "done" /\ ~ValidReferences) =>
        /\ ~result.ok
        /\ result.type = "ValueError"
        /\ Range(calls) \cap EngineCalls = {}
        /\ valued = << >>
        /\ load_factor = << >>
    /\ (pc = "done" /\ ~({request.origin, request.destination} \subseteq Codes(locations))) =>
        /\ vehicles = << >>
        /\ "Vehicle.find" \notin Range(calls)

\* a call on an available database holding a configuration for the route,
\* rejected for its vehicle_type after its origin and destination passed
C21_Witness ==
    /\ pc = "done"
    /\ DbUp
    /\ dbConfigs # << >>
    /\ request.origin = "plant-a"
    /\ request.destination = "kios-bandung"
    /\ {request.origin, request.destination} \subseteq Codes(locations)
    /\ request.vehicle_type \notin Codes(vehicles)
    /\ result = InvalidVehicleError(request)
    /\ calls = <<"Location.find", "Vehicle.find">>

-----------------------------------------------------------------------------
(* Claims about the two valuation paths *)

\* equality of two rationals
REq(a, b) == a.n * b.d = b.n * a.d

\* the vehicle and the load factor of the running call
CallVehicle == VehicleDict(vehicles)[request.vehicle_type]
CallLoadFactor == LoadFactor(request.load_capacity, CallVehicle)

\* the locals of the live valuation (lines 128-160) of variant k at the
\* given distance, for the call's vehicle and load
LiveValuationAt(k, distance) ==
    LET a == LiveArgs(distance, CallVehicle, CallLoadFactor)
    IN LiveLocals(k, distance, a[k].speed, a[k].fuel_consumption, RInt(FuelPrice),
                  a[k].toll_cost_per_km, a[k].co2_factor, CallLoadFactor)

(* C22: for a given variant, distance, vehicle and load the valuation     *)
(* (duration, fuel cost, toll cost, CO2) is the same whether the distance *)
(* came from a cached RouteConfiguration or from live computation: every  *)
(* figure computed from a stored distance equals the figure the live      *)
(* valuation gives for that variant at that distance.                      *)
C22_SameValuation ==
    \A i \in 1..Len(valued) :
        valued[i].source = "database" =>
            LET v == valued[i]
                w == LiveValuationAt(v.id, v.distance)
            IN /\ REq(v.duration_hours, w.duration_hours)
               /\ REq(v.fuel_cost, w.fuel_cost)
               /\ REq(v.toll_cost, w.toll_cost)
               /\ REq(v.co2, w.co2)

-----------------------------------------------------------------------------
(* Claims about the fallback of optimize_route *)

\* what _generate_from_database gives for the configuration the call's
\* lookup finds
CachedOutcome ==
    _generate_from_database(request, Matching(dbConfigs, request)[1],
                            LocationDict(locations), CallVehicle)

\* the call's lookup raised, or the construction from the configuration it
\* found raised
LookupFailed ==
    \/ "RouteConfiguration.find raised" \in Range(calls)
    \/ /\ "_generate_from_database" \in Range(calls)
       /\ ~CachedOutcome.ok

(* C23: if the RouteConfiguration lookup, or the construction of the      *)
(* response from a found configuration, raises an exception, the error is *)
(* not surfaced to the caller: the lookup step ends the call only with a  *)
(* response, otherwise it leaves the call pending at the live computation *)
(* for the same request, and a finished call whose lookup failed carries  *)
(* the outcome of the live computation.                                    *)
C23_Fallback ==
    /\ [](/\ (pc = "compute" /\ LookupFailed) => result = Pending
          /\ (pc = "done" /\ LookupFailed) =>
                /\ calls[Len(calls)] = "_compute_optimized_routes"
                /\ result = _compute_optimized_routes(request, LocationDict(locations),
                                                      CallVehicle))
    /\ [][pc = "lookup" =>
            /\ request' = request
            /\ locations' = locations
            /\ vehicles' = vehicles
            /\ IF pc' = "done"
               THEN result'.ok /\ result' = CachedOutcome
               ELSE pc' = "compute" /\ result' = Pending]_vars

\* a finished call whose lookup raised although a configuration for the
\* request is stored: it ran the live computation
C23_Witness ==
    /\ pc = "done"
    /\ Matching(dbConfigs, request) # << >>
    /\ calls = <<"Location.find", "Vehicle.find", "RouteConfiguration.find raised",
                 "_compute_optimized_routes">>
    /\ valued # << >>

-----------------------------------------------------------------------------
(* Claims about the bookkeeping of _dijkstra *)

(* C24: whenever _dijkstra returns a non-empty path, the returned          *)
(* total_cost is the sum of weight_func over the edges of that path and    *)
(* the returned total_distance is the sum of their 'distance' fields; the  *)
(* same holds of every queue entry for the path that leads to its node, so *)
(* the two sums are kept apart.                                            *)
C24_Sums ==
    /\ (dpc = "done" /\ dresult.path # << >>) =>
        /\ IsPath(graph, dresult.path)
        /\ dresult.cost = PathCost(graph, dresult.path)
        /\ dresult.dist = PathDist(graph, dresult.path)
    /\ \A e \in queue :
        LET p == Append(e.path, e.node) IN
        /\ IsPath(graph, p)
        /\ e.cost = PathCost(graph, p)
        /\ e.dist = PathDist(graph, p)

\* a finished search that returned a two-hop path whose cost differs from
\* its distance on each edge
C24_Witness ==
    /\ dpc = "done"
    /\ Len(dresult.path) = 3
    /\ \A i \in 1..2 :
        LET edge == graph[dresult.path[i]][dresult.path[i + 1]]
        IN weight_func(edge) # edge.distance
    /\ dresult.cost = 1
    /\ dresult.dist = 4

(* C25: during any run of _dijkstra each node is expanded at most once: a  *)
(* step that pops an entry whose node is already visited only removes the  *)
(* entry, a step that pops any other entry adds exactly that node to       *)
(* visited, visited never loses a node, and no entry is pushed for a node  *)
(* that is visited.                                                        *)
C25_ExpandOnce ==
    [][(dpc = "loop" /\ queue # {}) =>
        LET e == HeapTop(queue) IN
        /\ e.node \in visited =>
            /\ queue' = queue \ {e}
            /\ visited' = visited
            /\ min_cost' = min_cost
            /\ dpc' = "loop"
        /\ e.node \notin visited => visited' = visited \cup {e.node}
        /\ \A f \in queue' \ queue : f.node \notin visited']_vars

\* the entry on top of the queue is for a node that was expanded before, and
\* an edge of negative cost leads from an expanded node to another one
C25_Witness ==
    /\ dpc = "loop"
    /\ queue # {}
    /\ HeapTop(queue).node \in visited
    /\ \E u, v \in visited :
        /\ v \in DOMAIN Neighbors(graph, u)
        /\ weight_func(graph[u][v]) < 0

(* C26: every call of _dijkstra on a finite graph terminates, for any      *)
(* edge-cost function: the call reaches its return; it returns as soon as  *)
(* the end node is popped, relaxing no edge, and otherwise only when the   *)
(* queue is empty; an entry is pushed only when it strictly lowers the     *)
(* best known cost of a node that is not visited; and a call that has      *)
(* returned takes no further step.                                         *)
C26_Terminates ==
    /\ <>(dpc = "done")
    /\ [][dpc # "done"]_vars
    /\ [][(dpc = "loop" /\ queue = {}) =>
            dpc' = "done" /\ dresult' = NoPathResult]_vars
    /\ [][(dpc = "loop" /\ queue # {}) =>
        LET e == HeapTop(queue) IN
        /\ (e.node \notin visited /\ e.node = end) =>
            /\ dpc' = "done"
            /\ dresult' = Returned(e)
            /\ queue' = queue \ {e}
            /\ min_cost' = min_cost
        /\ dpc' = "done" => (e.node \notin visited /\ e.node = end)
        /\ \A f \in queue' \ queue :
            /\ f.node \notin visited'
            /\ f.cost < MinCostGet(min_cost, f.node)
            /\ f.cost = min_cost'[f.node]]_vars

\* a search over edges of negative cost that returned when the end node was
\* popped, with entries still queued and a node not expanded
C26_Witness ==
    /\ dpc = "done"
    /\ dresult.path # << >>
    /\ dresult.cost < 0
    /\ queue # {}
    /\ visited # Nodes

-----------------------------------------------------------------------------
(* Claims about the figures of a response *)

\* the unrounded figures behind option k of the call's response
ValuedOf(k) == valued[CHOOSE i \in 1..Len(valued) : valued[i].id = k]

(* C27: for every RouteOption the duration string is '<h>h <m>min' where   *)
(* h is the whole number of hours of distance / effective_speed and m the  *)
(* whole number of minutes of the remaining fraction of an hour, so that   *)
(* 0 <= m <= 59 and h * 60 + m never exceeds the true duration in minutes. *)
C27_DurationFormat ==
    (pc = "done" /\ result.ok) =>
        \A k \in Range(Variants) :
            LET d == result.val[k].duration
                true_minutes == RMul(ValuedOf(k).duration_hours, RInt(60))
            IN /\ IsDurationString(d)
               /\ d[1] >= 0
               /\ 0 <= d[3] /\ d[3] <= 59
               /\ RLeq(RInt(d[1] * 60 + d[3]), true_minutes)
               /\ RLess(true_minutes, RInt(d[1] * 60 + d[3] + 1))

-----------------------------------------------------------------------------
(* Claims about the data sources of one call *)

\* the call has read its vehicles
VehiclesRead ==
    \/ pc \in {"lookup", "compute"}
    \/ pc = "done" /\ {request.origin, request.destination} \subseteq Codes(locations)

\* the call's locations / vehicles are the documents of the collection (no
\* collection of the model equals the mock list)
LocationsFromDb == locations = dbLocations
VehiclesFromDb == vehicles = dbVehicles

(* C28: within one optimize_route call the locations, the vehicles and the *)
(* configuration lookup all observe the same data source: the call never   *)
(* combines database-backed locations with mock vehicles (or the reverse), *)
(* and a call that values a stored configuration read its locations and    *)
(* its vehicles from the database too.                                     *)
C28_OneSource ==
    VehiclesRead =>
        /\ LocationsFromDb <=> VehiclesFromDb
        /\ "_generate_from_database" \in Range(calls) =>
                LocationsFromDb /\ VehiclesFromDb

-----------------------------------------------------------------------------
(* Claims about the order of the three options *)

\* fuel_cost + toll_cost of option k of the response
MonetaryCost(k) == result.val[k].fuel_cost + result.val[k].toll_cost

(* C29: in every response of optimize_route the 'cheapest' option has the  *)
(* lowest total monetary cost of the three: cheapest.fuel_cost +           *)
(* cheapest.toll_cost is at most that sum for 'fastest' and for            *)
(* 'greenest'.                                                             *)
C29_CheapestLowestCost ==
    (pc = "done" /\ result.ok) =>
        /\ MonetaryCost("cheapest") <= MonetaryCost("fastest")
        /\ MonetaryCost("cheapest") <= MonetaryCost("greenest")

(* C30: in every response of optimize_route the 'greenest' option has the  *)
(* lowest CO2 of the three: greenest.co2 <= fastest.co2 and greenest.co2   *)
(* <= cheapest.co2.                                                        *)
C30_GreenestLowestCo2 ==
    (pc = "done" /\ result.ok) =>
        /\ result.val["greenest"].co2 <= result.val["fastest"].co2
        /\ result.val["greenest"].co2 <= result.val["cheapest"].co2

====
